---- MODULE Spec2Model ----
(***************************************************************************)
(* Model of the dominion rules engine (dom_core): the card multiset, the   *)
(* board state and its mutations (state.rs, and the RevealTopDeck arm of   *)
(* lib.rs), composite application and replay, and the game facade's        *)
(* construction and best-effort draw (lib.rs).                             *)
(*                                                                         *)
(* Option<T> is modelled as a sequence of length at most one: None is <<>> *)
(* and Some(x) is <<x>>.  Vec<T> is a sequence whose LAST element is the   *)
(* top (push appends, pop removes the last).  Player Pn is the number n.   *)
(***************************************************************************)
EXTENDS Integers, Sequences, FiniteSets, TLC

VARIABLES board, made, crashed, game, log, glast, twin, pending, built, entropy

vars == <<board, made, crashed, game, log, glast, twin, pending, built, entropy>>

---------------------------------------------------------------------------
(* Bounds of the model *)

\* largest count given to AddStack
MaxCount == 1
\* largest seed given to BoardState::new / Game::new_from_seed
MaxSeed == 1
\* longest list given to mutate_multi
MaxList == 2

---------------------------------------------------------------------------
(* Option<T> *)

None == <<>>
Some(x) == <<x>>
IsSome(o) == Len(o) = 1
IsNone(o) == Len(o) = 0
Unwrap(o) == o[1]
\* Option::or
OptOr(a, b) == IF IsSome(a) THEN a ELSE b

\* the outcome of a call that panics (unimplemented!, unwrap of None): neither
\* Some nor None
Panic == <<"panic", "abort">>
IsPanic(o) == Len(o) = 2

---------------------------------------------------------------------------
(* card.rs *)

\* enum Card, in declaration order
CardOrder ==
    << "Copper", "Silver", "Gold", "Estate", "Duchy", "Province", "Curse",
       "Cellar", "Market", "Militia", "Mine", "Moat", "Remodel", "Smithy",
       "Village", "Woodcutter", "Workshop" >>

Card == { CardOrder[i] : i \in 1..Len(CardOrder) }

\* enum Players (rules.rs), as its u32 value
Players == {2, 3, 4}

FIRST_SET ==
    << "Cellar", "Market", "Militia", "Mine", "Moat", "Remodel", "Smithy",
       "Village", "Woodcutter", "Workshop" >>

\* player_victories that gives the two-player count to every game
player_victories_two(players) == 8

player_victories(players) == IF players = 2 THEN 8 ELSE 12

\* starting_count with ten Curses for every seat
starting_count_curse_per_seat(card, players) ==
    CASE card = "Copper" -> 60
      [] card = "Silver" -> 40
      [] card = "Gold" -> 30
      [] card = "Estate" -> players * 3 + player_victories(players)
      [] card \in {"Duchy", "Province"} -> player_victories(players)
      [] card = "Curse" -> players * 10
      [] OTHER -> 10

starting_count(card, players) ==
    CASE card = "Copper" -> 60
      [] card = "Silver" -> 40
      [] card = "Gold" -> 30
      [] card = "Estate" -> players * 3 + player_victories(players)
      [] card \in {"Duchy", "Province"} -> player_victories(players)
      [] card = "Curse" -> (players - 1) * 10
      [] OTHER -> 10

\* CardSet::empty
empty == [c \in Card |-> 0]

\* CardSet::insert
insert(set, card, cnt) == [set EXCEPT ![card] = @ + cnt]

\* CardSet::take: the success flag and the set afterwards
take(set, card, cnt) ==
    IF set[card] < cnt
    THEN [ok |-> FALSE, set |-> set]
    ELSE [ok |-> TRUE, set |-> [set EXCEPT ![card] = @ - cnt]]

\* CardSet::count
count(set, card) == set[card]

\* CardSet::contains
contains(set, card) == count(set, card) > 0

\* n copies of x, as a sequence
RECURSIVE Replicate(_, _)
Replicate(x, n) == IF n = 0 THEN <<>> ELSE Append(Replicate(x, n - 1), x)

\* IntoIterator for CardSet followed by CardSetIterator::next until exhausted:
\* the (card, count) pairs with count > 0 are pushed in enum order and popped
\* from the end, so the cards come out in descending enum order.
RECURSIVE IterFrom(_, _)
IterFrom(set, i) ==
    IF i = 0 THEN <<>>
    ELSE Replicate(CardOrder[i], set[CardOrder[i]]) \o IterFrom(set, i - 1)

into_iter(set) == IterFrom(set, Len(CardOrder))

\* CardSet::drain: the iterator's items and the set afterwards
drain(set) == [items |-> into_iter(set), set |-> empty]

\* PartialEq for CardSet
CardSetEq(a, b) == into_iter(a) = into_iter(b)

---------------------------------------------------------------------------
(* state.rs: players, phases, the generator *)

Player == 0..3

PlayerPhase == {"Action", "Buy", "NotTurn"}

\* PlayerSet::just
just(p) == [bitset |-> 2 ^ p]

\* PlayerSet::contains
PlayerSetContains(ps, p) == ((ps.bitset \div (2 ^ p)) % 2) = 1

\* enum Reveal
RevealAll == [tag |-> "All"]
RevealJust(ps) == [tag |-> "Just", set |-> ps]

\* a generator seeded from the process's entropy, not from the given seed
from_entropy(seed) == entropy % 8

\* RNGSource::from_seed: the stand-in generator starts in the state the seed names
from_seed(seed) == seed % 8

\* one step of the stand-in generator
RngNext(s) == (5 * s + 3) % 8

\* Rng::shuffle (Fisher-Yates from the end): while i >= 2 { i -= 1;
\* swap(i, gen_range(0, i + 1)) }, indices 0-based; v is 1-based here.
Swap(v, a, b) == [v EXCEPT ![a] = v[b], ![b] = v[a]]

RECURSIVE RngShuffleFrom(_, _, _)
RngShuffleFrom(s, v, i) ==
    IF i < 2 THEN [rng |-> s, values |-> v]
    ELSE LET s2 == RngNext(s)
             j == s2 % i
         IN RngShuffleFrom(s2, Swap(v, i, j + 1), i - 1)

RngShuffle(s, v) == RngShuffleFrom(s, v, Len(v))

\* Enum::<u32>::from_usize for Player: the variant at that place of the declaration
PlayerOrder == <<0, 1, 2, 3>>
from_usize(i) == PlayerOrder[i + 1]

\* Player::next reducing modulo one less than the number of players
next_off_by_one(self, players) == from_usize((self + 1) % (players - 1))

\* Player::next without the reduction modulo the number of players
next_unreduced(self, players) == from_usize((self + 1) % 4)

\* Player::next (self + 1 is at most 4: the u32 sum cannot wrap)
next(self, players) == from_usize((self + 1) % players)

---------------------------------------------------------------------------
(* state.rs: BoardState *)

FreshPlayer ==
    [hand |-> <<>>, played |-> empty, discard |-> empty, draw |-> <<>>,
     actions |-> 0, buys |-> 0, phase |-> "NotTurn", gold |-> 0]

\* BoardState::new
new(seed) ==
    [supply |-> empty, trash |-> <<>>, stacks |-> empty, players |-> <<>>,
     rand |-> IF IsSome(seed) THEN Some(from_seed(Unwrap(seed))) ELSE None,
     turn |-> 0]

\* an equality of players that compares the phase as well
PlayerStateEq_with_phase(a, b) ==
    /\ a.hand = b.hand
    /\ CardSetEq(a.played, b.played)
    /\ CardSetEq(a.discard, b.discard)
    /\ a.draw = b.draw
    /\ a.phase = b.phase

\* PartialEq for PlayerState
PlayerStateEq(a, b) ==
    /\ a.hand = b.hand
    /\ CardSetEq(a.played, b.played)
    /\ CardSetEq(a.discard, b.discard)
    /\ a.draw = b.draw

\* PartialEq for BoardState
BoardStateEq(a, b) ==
    /\ CardSetEq(a.supply, b.supply)
    /\ CardSetEq(a.stacks, b.stacks)
    /\ a.trash = b.trash
    /\ Len(a.players) = Len(b.players)
    /\ \A i \in 1..Len(a.players) : PlayerStateEq(a.players[i], b.players[i])

\* CardSet::count_iter filtered as in supply_stacks: the (card, count) pairs
\* of the supply, in enum order from the i-th card on, of the cards that have
\* a pile
RECURSIVE SupplyStacksFrom(_, _)
SupplyStacksFrom(self, i) ==
    IF i > Len(CardOrder) THEN <<>>
    ELSE (IF contains(self.stacks, CardOrder[i])
          THEN << <<CardOrder[i], self.supply[CardOrder[i]]>> >> ELSE <<>>)
             \o SupplyStacksFrom(self, i + 1)

\* BoardState::supply_stacks
supply_stacks(self) == SupplyStacksFrom(self, 1)

\* BoardState::get_player
get_player(self, p) ==
    IF p + 1 <= Len(self.players) THEN Some(self.players[p + 1]) ELSE None

\* BoardState::num_players
num_players(self) ==
    IF Len(self.players) \in {2, 3, 4} THEN Some(Len(self.players)) ELSE None

\* set_players without the check that the seat list is empty
set_players_unchecked(self, p) ==
    Some([self EXCEPT !.players = @ \o Replicate(FreshPlayer, p)])

\* BoardState::set_players
set_players(self, p) ==
    IF Len(self.players) = 0
    THEN Some([self EXCEPT !.players = @ \o Replicate(FreshPlayer, p)])
    ELSE None

\* add_stack that asks the supply, not the stacks, whether the pile exists
add_stack_by_supply(self, card, cnt) ==
    IF ~contains(self.supply, card)
    THEN Some([self EXCEPT !.stacks = insert(@, card, 1),
                           !.supply = insert(@, card, cnt)])
    ELSE None

\* add_stack that fills the supply without recording the pile
add_stack_unrecorded(self, card, cnt) ==
    IF ~contains(self.stacks, card)
    THEN Some([self EXCEPT !.supply = insert(@, card, cnt)])
    ELSE None

\* BoardState::add_stack
add_stack(self, card, cnt) ==
    IF ~contains(self.stacks, card)
    THEN Some([self EXCEPT !.stacks = insert(@, card, 1),
                           !.supply = insert(@, card, cnt)])
    ELSE None

\* gain_card that returns the state it took the card from when the player is
\* missing
gain_card_no_seat_check(self, player, card) ==
    LET t == take(self.supply, card, 1)
    IN IF t.ok
       THEN IF player + 1 <= Len(self.players)
            THEN Some([self EXCEPT !.supply = t.set,
                          !.players[player + 1].discard = insert(@, card, 1)])
            ELSE Some([self EXCEPT !.supply = t.set])
       ELSE None

\* gain_card that leaves the supply as it was
gain_card_keeps_supply(self, player, card) ==
    LET t == take(self.supply, card, 1)
    IN IF t.ok
       THEN IF player + 1 <= Len(self.players)
            THEN Some([self EXCEPT
                          !.players[player + 1].discard = insert(@, card, 1)])
            ELSE None
       ELSE None

\* BoardState::gain_card
gain_card(self, player, card) ==
    LET t == take(self.supply, card, 1)
    IN IF t.ok
       THEN IF player + 1 <= Len(self.players)
            THEN Some([self EXCEPT !.supply = t.set,
                          !.players[player + 1].discard = insert(@, card, 1)])
            ELSE None
       ELSE None

\* the drained cards as known draw-pile entries, in the order drained
RECURSIVE SomeAll(_)
SomeAll(items) ==
    IF items = <<>> THEN <<>> ELSE <<Some(Head(items))>> \o SomeAll(Tail(items))

\* shuffle without the filter on an empty draw pile
shuffle_over_draw(self, player) ==
    IF player + 1 <= Len(self.players)
    THEN LET p == self.players[player + 1]
             d == drain(p.discard)
         IN IF IsSome(self.rand)
            THEN LET sh == RngShuffle(Unwrap(self.rand), SomeAll(d.items))
                 IN Some([self EXCEPT
                            !.players[player + 1].discard = d.set,
                            !.players[player + 1].draw = sh.values,
                            !.rand = Some(sh.rng)])
            ELSE Some([self EXCEPT
                         !.players[player + 1].discard = d.set,
                         !.players[player + 1].draw = Replicate(None, Len(d.items))])
    ELSE None

\* shuffle that keeps the drained cards known when the board has no generator
shuffle_keeps_known(self, player) ==
    IF player + 1 <= Len(self.players) /\ Len(self.players[player + 1].draw) = 0
    THEN LET p == self.players[player + 1]
             d == drain(p.discard)
         IN IF IsSome(self.rand)
            THEN LET sh == RngShuffle(Unwrap(self.rand), SomeAll(d.items))
                 IN Some([self EXCEPT
                            !.players[player + 1].discard = d.set,
                            !.players[player + 1].draw = sh.values,
                            !.rand = Some(sh.rng)])
            ELSE Some([self EXCEPT
                         !.players[player + 1].discard = d.set,
                         !.players[player + 1].draw = SomeAll(d.items)])
    ELSE None

\* shuffle that draws its randomness from the process's entropy rather than
\* from the board's own generator
shuffle_from_entropy(self, player) ==
    IF player + 1 <= Len(self.players) /\ Len(self.players[player + 1].draw) = 0
    THEN LET p == self.players[player + 1]
             d == drain(p.discard)
         IN IF IsSome(self.rand)
            THEN LET sh == RngShuffle(entropy, SomeAll(d.items))
                 IN Some([self EXCEPT
                            !.players[player + 1].discard = d.set,
                            !.players[player + 1].draw = sh.values])
            ELSE Some([self EXCEPT
                         !.players[player + 1].discard = d.set,
                         !.players[player + 1].draw = Replicate(None, Len(d.items))])
    ELSE None

\* shuffle that also fails when there is nothing in the discard to shuffle
shuffle_needs_discard(self, player) ==
    IF /\ player + 1 <= Len(self.players)
       /\ Len(self.players[player + 1].draw) = 0
       /\ into_iter(self.players[player + 1].discard) # <<>>
    THEN LET p == self.players[player + 1]
             d == drain(p.discard)
         IN IF IsSome(self.rand)
            THEN LET known == SomeAll(d.items)
                     sh == RngShuffle(Unwrap(self.rand), known)
                 IN Some([self EXCEPT
                            !.players[player + 1].discard = d.set,
                            !.players[player + 1].draw = sh.values,
                            !.rand = Some(sh.rng)])
            ELSE Some([self EXCEPT
                         !.players[player + 1].discard = d.set,
                         !.players[player + 1].draw =
                             Replicate(None, Len(d.items))])
    ELSE None

\* BoardState::shuffle
shuffle(self, player) ==
    IF player + 1 <= Len(self.players) /\ Len(self.players[player + 1].draw) = 0
    THEN LET p == self.players[player + 1]
             d == drain(p.discard)
         IN IF IsSome(self.rand)
            THEN LET known == SomeAll(d.items)
                     sh == RngShuffle(Unwrap(self.rand), known)
                 IN Some([self EXCEPT
                            !.players[player + 1].discard = d.set,
                            !.players[player + 1].draw = sh.values,
                            !.rand = Some(sh.rng)])
            ELSE Some([self EXCEPT
                         !.players[player + 1].discard = d.set,
                         !.players[player + 1].draw =
                             Replicate(None, Len(d.items))])
    ELSE None

\* the seat the closure of try_modify_player and modify_player works on
Seat(self, player) == self.players[player + 1]

\* BoardState::try_modify_player.  The closure f is given as fp, its result on
\* Seat(self, player): the seat afterwards, or None; fp is looked at only when
\* the player is a seat.
try_modify_player(self, player, fp) ==
    IF player + 1 <= Len(self.players)
    THEN IF IsSome(fp)
         THEN Some([self EXCEPT !.players[player + 1] = Unwrap(fp)])
         ELSE None
    ELSE None

\* modify_player that hands the board back when the player is not a seat
modify_player_lenient(self, player, fp) ==
    IF player + 1 <= Len(self.players)
    THEN Some([self EXCEPT !.players[player + 1] = fp])
    ELSE Some(self)

\* BoardState::modify_player; fp is the seat after the closure
modify_player(self, player, fp) ==
    try_modify_player(self, player, Some(fp))

\* Vec::pop: the popped entry (an Option) and the vector afterwards
pop(v) ==
    IF Len(v) = 0 THEN [item |-> None, vec |-> v]
    ELSE [item |-> Some(v[Len(v)]), vec |-> SubSeq(v, 1, Len(v) - 1)]

\* draw_card without the filter on the popped entry
draw_card_unfiltered(self, player, card) ==
    IF player + 1 <= Len(self.players) /\ Len(self.players[player + 1].draw) > 0
    THEN LET pl == self.players[player + 1]
             top == pl.draw[Len(pl.draw)]
         IN Some([self EXCEPT
                    !.players[player + 1].draw = SubSeq(pl.draw, 1, Len(pl.draw) - 1),
                    !.players[player + 1].hand = Append(@, OptOr(top, card))])
    ELSE None

\* draw_card that pushes the provided card, not the richer of the two
draw_card_push_given(self, player, card) ==
    IF player + 1 <= Len(self.players) /\ Len(self.players[player + 1].draw) > 0
    THEN LET pl == self.players[player + 1]
             top == pl.draw[Len(pl.draw)]
         IN IF IsNone(top) \/ IsNone(card) \/ top = card
            THEN Some([self EXCEPT
                    !.players[player + 1].draw = SubSeq(pl.draw, 1, Len(pl.draw) - 1),
                    !.players[player + 1].hand = Append(@, card)])
            ELSE None
    ELSE None

\* BoardState::draw_card (state.rs)
draw_card(self, player, card) ==
    try_modify_player(self, player,
        LET pl == Seat(self, player) IN
            LET po == pop(pl.draw)
            IN IF IsSome(po.item)
                  /\ (IsNone(Unwrap(po.item)) \/ IsNone(card) \/ Unwrap(po.item) = card)
               THEN Some([pl EXCEPT !.draw = po.vec,
                                    !.hand = Append(@, OptOr(Unwrap(po.item), card))])
               ELSE None)

\* change_turn that checks the seat and leaves the turn as it is
change_turn_stay(self, player) ==
    IF IsSome(get_player(self, player)) THEN Some(self) ELSE None

\* BoardState::change_turn
change_turn(self, player) ==
    IF IsSome(get_player(self, player))
    THEN Some([self EXCEPT !.turn = player])
    ELSE None

\* set_phase that refuses to take a seat from Action to Buy
set_phase_once(self, player, phase) ==
    IF player + 1 <= Len(self.players)
       /\ Seat(self, player).phase = "Action" /\ phase = "Buy"
    THEN None
    ELSE modify_player(self, player,
             LET pl == Seat(self, player) IN [pl EXCEPT !.phase = phase])

\* BoardState::set_phase
set_phase(self, player, phase) ==
    modify_player(self, player, LET pl == Seat(self, player) IN [pl EXCEPT !.phase = phase])

\* BoardState::set_buys
set_buys(self, player, buys) ==
    modify_player(self, player, LET pl == Seat(self, player) IN [pl EXCEPT !.buys = buys])

\* BoardState::set_actions
set_actions(self, player, actions) ==
    modify_player(self, player, LET pl == Seat(self, player) IN [pl EXCEPT !.actions = actions])

\* BoardState::set_gold
set_gold(self, player, gold) ==
    modify_player(self, player, LET pl == Seat(self, player) IN [pl EXCEPT !.gold = gold])

\* Vec::remove_item: removes the first entry equal to x
FirstIndex(v, x) ==
    IF \E i \in 1..Len(v) : v[i] = x
    THEN CHOOSE i \in 1..Len(v) : v[i] = x /\ \A j \in 1..(i - 1) : v[j] # x
    ELSE 0

remove_item(v, x) ==
    LET i == FirstIndex(v, x)
    IN IF i = 0 THEN [item |-> None, vec |-> v]
       ELSE [item |-> Some(x),
             vec |-> SubSeq(v, 1, i - 1) \o SubSeq(v, i + 1, Len(v))]

\* discard_hand that never falls back to an unknown entry
discard_hand_known_only(self, player, card) ==
    try_modify_player(self, player,
        LET pl == Seat(self, player) IN
            LET r1 == remove_item(pl.hand, Some(card))
            IN IF IsSome(r1.item)
               THEN Some([pl EXCEPT !.hand = r1.vec,
                                    !.discard = insert(@, card, 1)])
               ELSE None)

\* discard_hand that removes an unknown entry before it looks for the card
discard_hand_unknown_first(self, player, card) ==
    try_modify_player(self, player,
        LET pl == Seat(self, player) IN
            LET r1 == remove_item(pl.hand, None)
                r2 == remove_item(pl.hand, Some(card))
            IN IF IsSome(r1.item)
               THEN Some([pl EXCEPT !.hand = r1.vec,
                                    !.discard = insert(@, card, 1)])
               ELSE IF IsSome(r2.item)
               THEN Some([pl EXCEPT !.hand = r2.vec,
                                    !.discard = insert(@, card, 1)])
               ELSE None)

\* BoardState::discard_hand
discard_hand(self, player, card) ==
    try_modify_player(self, player,
        LET pl == Seat(self, player) IN
            LET r1 == remove_item(pl.hand, Some(card))
                r2 == remove_item(pl.hand, None)
            IN IF IsSome(r1.item)
               THEN Some([pl EXCEPT !.hand = r1.vec,
                                    !.discard = insert(@, card, 1)])
               ELSE IF IsSome(r2.item)
               THEN Some([pl EXCEPT !.hand = r2.vec,
                                    !.discard = insert(@, card, 1)])
               ELSE None)

\* the loop of discard_played: every drained card is inserted into the discard
RECURSIVE InsertAll(_, _)
InsertAll(set, items) ==
    IF items = <<>> THEN set
    ELSE InsertAll(insert(set, Head(items), 1), Tail(items))

\* discard_played that replaces the discard by the drained cards
discard_played_over_discard(self, player) ==
    modify_player(self, player,
        LET pl == Seat(self, player) IN
            LET d == drain(pl.played)
            IN [pl EXCEPT !.played = d.set,
                          !.discard = InsertAll(empty, d.items)])

\* discard_played that drains the played set and inserts nothing
discard_played_lost(self, player) ==
    modify_player(self, player,
        LET pl == Seat(self, player) IN [pl EXCEPT !.played = drain(pl.played).set])

\* BoardState::discard_played
discard_played(self, player) ==
    modify_player(self, player,
        LET pl == Seat(self, player) IN
            LET d == drain(pl.played)
            IN [pl EXCEPT !.played = d.set,
                          !.discard = InsertAll(@, d.items)])

\* BoardState::reveal_top_deck (lib.rs)
reveal_top_deck(self, player, card, reveal) ==
    IF player + 1 <= Len(self.players)
    THEN LET po == pop(self.players[player + 1].draw)
         IN IF IsSome(po.item)
            THEN Some([self EXCEPT !.players[player + 1].draw = Append(po.vec, card)])
            ELSE None
    ELSE None

\* BoardState::draw_card (lib.rs), the DrawCard(Player) of the game facade
lib_draw_card(self, player) ==
    IF player + 1 <= Len(self.players)
    THEN LET po == pop(self.players[player + 1].draw)
         IN IF IsSome(po.item)
            THEN Some([self EXCEPT
                         !.players[player + 1].draw = po.vec,
                         !.players[player + 1].hand = Append(@, Unwrap(po.item))])
            ELSE None
    ELSE None

---------------------------------------------------------------------------
(* enum Mutation, as records *)

SetPlayers(n) == [kind |-> "SetPlayers", n |-> n]
AddStack(c, n) == [kind |-> "AddStack", card |-> c, n |-> n]
ChangeTurn(p) == [kind |-> "ChangeTurn", p |-> p]
SetPhase(p, ph) == [kind |-> "SetPhase", p |-> p, phase |-> ph]
SetBuys(p, v) == [kind |-> "SetBuys", p |-> p, v |-> v]
SetActions(p, v) == [kind |-> "SetActions", p |-> p, v |-> v]
SetGold(p, v) == [kind |-> "SetGold", p |-> p, v |-> v]
DiscardHand(p, c) == [kind |-> "DiscardHand", p |-> p, card |-> c]
DiscardPlayed(p) == [kind |-> "DiscardPlayed", p |-> p]
DrawCard(p, oc) == [kind |-> "DrawCard", p |-> p, optcard |-> oc]
GainCard(p, c) == [kind |-> "GainCard", p |-> p, card |-> c]
ShuffleDiscard(p) == [kind |-> "ShuffleDiscard", p |-> p]
RevealTopDeck(p, oc, r) == [kind |-> "RevealTopDeck", p |-> p, optcard |-> oc, reveal |-> r]
PlayCard(p, c) == [kind |-> "PlayCard", p |-> p, card |-> c]
RevealHandCards(p, os, r) == [kind |-> "RevealHandCards", p |-> p, set |-> os, reveal |-> r]
\* Mutation::DrawCard(Player) of lib.rs
LibDrawCard(p) == [kind |-> "LibDrawCard", p |-> p]

\* BoardState::mutate: the arms of state.rs, and the RevealTopDeck and
\* DrawCard(Player) arms of lib.rs; the last arm is _ => unimplemented!()
mutate(self, m) ==
    CASE m.kind = "SetPlayers" -> set_players(self, m.n)
      [] m.kind = "AddStack" -> add_stack(self, m.card, m.n)
      [] m.kind = "GainCard" -> gain_card(self, m.p, m.card)
      [] m.kind = "ShuffleDiscard" -> shuffle(self, m.p)
      [] m.kind = "DrawCard" -> draw_card(self, m.p, m.optcard)
      [] m.kind = "ChangeTurn" -> change_turn(self, m.p)
      [] m.kind = "SetPhase" -> set_phase(self, m.p, m.phase)
      [] m.kind = "SetBuys" -> set_buys(self, m.p, m.v)
      [] m.kind = "SetActions" -> set_actions(self, m.p, m.v)
      [] m.kind = "SetGold" -> set_gold(self, m.p, m.v)
      [] m.kind = "DiscardHand" -> discard_hand(self, m.p, m.card)
      [] m.kind = "DiscardPlayed" -> discard_played(self, m.p)
      [] m.kind = "RevealTopDeck" -> reveal_top_deck(self, m.p, m.optcard, m.reveal)
      [] m.kind = "LibDrawCard" -> lib_draw_card(self, m.p)
      [] OTHER -> Panic

\* count_supply that asks the supply, not the stacks, whether the pile exists
count_supply_by_supply(self, card) ==
    IF contains(self.supply, card) THEN Some(count(self.supply, card)) ELSE None

\* BoardState::count_supply
count_supply(self, card) ==
    IF contains(self.stacks, card) THEN Some(count(self.supply, card)) ELSE None

\* the loop of mutate_multi: for m in mutations
\* { state = state.and_then(|s| s.mutate(*m)) }; a None stays None and a panic
\* ends the call.  The list is folded left to right; it is split in two halves
\* (the first folded before the second) only to keep the evaluation shallow.
RECURSIVE MultiFrom(_, _)
MultiFrom(state, mutations) ==
    IF Len(mutations) = 0 THEN state
    ELSE IF Len(mutations) = 1
    THEN (IF IsSome(state) THEN mutate(Unwrap(state), mutations[1]) ELSE state)
    ELSE LET h == Len(mutations) \div 2
         IN CHOOSE r \in
                { MultiFrom(mid, SubSeq(mutations, h + 1, Len(mutations)))
                  : mid \in { MultiFrom(state, SubSeq(mutations, 1, h)) } } : TRUE

\* mutate_multi that skips a rejected mutation and goes on with the state before it
RECURSIVE MultiSkipFrom(_, _)
MultiSkipFrom(state, mutations) ==
    IF Len(mutations) = 0 THEN Some(state)
    ELSE LET r == mutate(state, Head(mutations))
         IN IF IsPanic(r) THEN r
            ELSE MultiSkipFrom(IF IsSome(r) THEN Unwrap(r) ELSE state, Tail(mutations))

mutate_multi_skipping(self, mutations) == MultiSkipFrom(self, mutations)

\* BoardState::mutate_multi
mutate_multi(self, mutations) == MultiFrom(Some(self), mutations)

\* BoardState::from_mutations
from_mutations(mutations) == mutate_multi(new(None), mutations)

---------------------------------------------------------------------------
(* lib.rs: the game facade.  A Game is its BoardState. *)

\* Game::start_stack
start_stack(c, players) == AddStack(c, starting_count(c, players))

\* chain_mutate that does not record the mutation it applied
chain_mutate_unrecorded(pair, mutation) ==
    LET r == mutate(pair.state, mutation)
    IN IF IsSome(r)
       THEN Some([state |-> Unwrap(r), mutations |-> pair.mutations])
       ELSE None

\* Game::chain_mutate: the pair afterwards, or None
chain_mutate(pair, mutation) ==
    LET r == mutate(pair.state, mutation)
    IN IF IsSome(r)
       THEN Some([state |-> Unwrap(r), mutations |-> Append(pair.mutations, mutation)])
       ELSE None

\* Game::start_empty_chain_mutate
start_empty_chain_mutate(g) == Some([state |-> g, mutations |-> <<>>])

\* Game::apply_mutate_chain: the game afterwards and the returned Option<Mutations>
apply_mutate_chain(g, pair) ==
    IF IsSome(pair)
    THEN [game |-> Unwrap(pair).state, ret |-> Some(Unwrap(pair).mutations)]
    ELSE [game |-> g, ret |-> None]

\* draw_iter().next(): the top of the draw pile, None when the pile is empty
draw_top(pl) == IF Len(pl.draw) = 0 THEN None ELSE Some(pl.draw[Len(pl.draw)])

\* discard_iter().next()
discard_first(pl) ==
    LET it == into_iter(pl.discard) IN IF Len(it) = 0 THEN None ELSE Some(it[1])

\* draw_card that fails when the seat has no card to draw
game_draw_card_strict(g, player) ==
    LET c0 == start_empty_chain_mutate(g)
        c1 == IF IsSome(c0)
              THEN LET st == Unwrap(c0)
                       p == get_player(st.state, player)
                   IN IF IsSome(p)
                      THEN IF IsNone(draw_top(Unwrap(p))) /\ IsSome(discard_first(Unwrap(p)))
                           THEN chain_mutate(st, ShuffleDiscard(player))
                           ELSE Some(st)
                      ELSE None
              ELSE None
        c2 == IF IsSome(c1)
              THEN LET st == Unwrap(c1)
                       p == get_player(st.state, player)
                   IN IF IsSome(p)
                      THEN LET top == draw_top(Unwrap(p))
                           IN IF IsSome(top)
                              THEN LET c == chain_mutate(st,
                                              RevealTopDeck(player, Unwrap(top),
                                                            RevealJust(just(player))))
                                   IN IF IsSome(c)
                                      THEN chain_mutate(Unwrap(c), LibDrawCard(player))
                                      ELSE None
                              ELSE None
                      ELSE None
              ELSE None
    IN apply_mutate_chain(g, c2)

\* Game::draw_card
game_draw_card(g, player) ==
    LET c0 == start_empty_chain_mutate(g)
        c1 == IF IsSome(c0)
              THEN LET st == Unwrap(c0)
                       p == get_player(st.state, player)
                   IN IF IsSome(p)
                      THEN IF IsNone(draw_top(Unwrap(p))) /\ IsSome(discard_first(Unwrap(p)))
                           THEN chain_mutate(st, ShuffleDiscard(player))
                           ELSE Some(st)
                      ELSE None
              ELSE None
        c2 == IF IsSome(c1)
              THEN LET st == Unwrap(c1)
                       p == get_player(st.state, player)
                   IN IF IsSome(p)
                      THEN LET top == draw_top(Unwrap(p))
                           IN IF IsSome(top)
                              THEN LET c == chain_mutate(st,
                                              RevealTopDeck(player, Unwrap(top),
                                                            RevealJust(just(player))))
                                   IN IF IsSome(c)
                                      THEN chain_mutate(Unwrap(c), LibDrawCard(player))
                                      ELSE None
                              ELSE Some(st)
                      ELSE None
              ELSE None
    IN apply_mutate_chain(g, c2)

\* the starting deck with the counts of Estate and Copper exchanged
SeatMuts_estates_first(player) ==
    Replicate(GainCard(player, "Estate"), 7)
        \o Replicate(GainCard(player, "Copper"), 3)
        \o <<ShuffleDiscard(player)>>

\* the mutations new_from_seed pushes for one seat
SeatMuts(player) ==
    Replicate(GainCard(player, "Estate"), 3)
        \o Replicate(GainCard(player, "Copper"), 7)
        \o <<ShuffleDiscard(player)>>

RECURSIVE SeatsMuts(_, _)
SeatsMuts(p, players) ==
    IF p >= players THEN <<>> ELSE SeatMuts(p) \o SeatsMuts(p + 1, players)

\* the first part of init_muts in new_from_seed
InitMuts(rules) ==
    <<SetPlayers(rules.players)>>
        \o [i \in 1..7 |-> start_stack(CardOrder[i], rules.players)]
        \o [i \in 1..10 |-> start_stack(rules.set[i], rules.players)]
        \o SeatsMuts(0, rules.players)

\* the drawing loops of new_from_seed: draw k (counted from 0) is for seat
\* k div 5; an unwrap of None panics
RECURSIVE DrawLoop(_, _, _, _)
DrawLoop(g, muts, k, players) ==
    IF k >= 5 * players THEN [panic |-> FALSE, game |-> g, muts |-> muts]
    ELSE CHOOSE r \in
            { IF IsSome(d.ret)
              THEN DrawLoop(d.game, d.muts, k + 1, players)
              ELSE [panic |-> TRUE, game |-> g, muts |-> muts]
              : d \in { [game |-> dc.game, ret |-> dc.ret,
                         muts |-> IF IsSome(dc.ret) THEN muts \o Unwrap(dc.ret) ELSE muts]
                        : dc \in {game_draw_card(g, k \div 5)} } } : TRUE

\* Game::new_from_seed
new_from_seed(rules, seed) ==
    LET init_muts == InitMuts(rules)
        st == mutate_multi(new(Some(seed)), init_muts)
    IN IF IsSome(st)
       THEN DrawLoop(Unwrap(st), init_muts, 0, rules.players)
       ELSE [panic |-> TRUE, game |-> new(Some(seed)), muts |-> init_muts]

---------------------------------------------------------------------------
(* The turn/phase driver and the action interface.  Game::act and          *)
(* Game::state are stubs in lib.rs (unimplemented!()) and the driver they  *)
(* rest on is not in the source; main.rs calls them.  They are modelled    *)
(* from the specification's sections 4.3 and 4.4.  A staging object is a   *)
(* cloned board and the list of the mutations applied to it.               *)

\* Update::try_append: the success flag and the staging object afterwards
try_append(u, m) ==
    CHOOSE a \in { IF IsSome(r)
                   THEN [ok |-> TRUE,
                         u |-> [state |-> Unwrap(r),
                                mutations |-> Append(u.mutations, m)]]
                   ELSE [ok |-> FALSE, u |-> u]
                   : r \in {mutate(u.state, m)} } : TRUE

\* Update::try_draw_card: best-effort, no step aborts the composite
try_draw_card(u, p) ==
    CHOOSE v \in { LET pl == get_player(u1.state, p)
                   IN IF IsSome(pl) /\ Len(Unwrap(pl).draw) > 0
                      THEN try_append(u1, DrawCard(p, Unwrap(draw_top(Unwrap(pl))))).u
                      ELSE u1
                   : u1 \in {try_append(u, ShuffleDiscard(p)).u} } : TRUE

\* a list of required mutations: the staging object afterwards, or None as
\* soon as one is rejected
RECURSIVE Required(_, _)
Required(u, ms) ==
    IF ms = <<>> THEN Some(u)
    ELSE CHOOSE r \in { IF a.ok THEN Required(a.u, Tail(ms)) ELSE None
                        : a \in {try_append(u, Head(ms))} } : TRUE

\* Update::begin_turn
begin_turn(u, p) ==
    LET prior == get_player(u.state, u.state.turn)
    IN CHOOSE r \in { Required(u0, << ChangeTurn(p), SetPhase(p, "Action"),
                                      SetBuys(p, 1), SetActions(p, 1),
                                      SetGold(p, 0) >>)
                      : u0 \in { IF IsSome(prior) /\ Unwrap(prior).phase # "NotTurn"
                                 THEN try_append(u, SetPhase(u.state.turn, "NotTurn")).u
                                 ELSE u } } : TRUE

\* DiscardHand(p, c) for every entry Some(c) of the snapshot of the hand
RECURSIVE DiscardEach(_, _)
DiscardEach(p, entries) ==
    IF entries = <<>> THEN <<>>
    ELSE (IF IsSome(Head(entries))
          THEN <<DiscardHand(p, Unwrap(Head(entries)))>> ELSE <<>>)
             \o DiscardEach(p, Tail(entries))

RECURSIVE DrawTimes(_, _, _)
DrawTimes(u, p, k) ==
    IF k = 0 THEN u
    ELSE CHOOSE r \in { DrawTimes(v, p, k - 1) : v \in {try_draw_card(u, p)} } : TRUE

\* Update::end_turn
end_turn(u, p) ==
    LET pl == get_player(u.state, p)
    IN IF IsNone(pl) THEN None
       ELSE CHOOSE r \in
                { IF IsNone(d) THEN None
                  ELSE Required(DrawTimes(Unwrap(d), p, 5), <<SetPhase(p, "NotTurn")>>)
                  : d \in { Required(u, ms)
                            : ms \in {DiscardEach(p, Unwrap(pl).hand)
                                      \o <<DiscardPlayed(p)>>} } } : TRUE

\* Update::commit, or the staging object discarded: the game afterwards and
\* the returned Option<Mutations>
commit(g, u) ==
    IF IsSome(u)
    THEN [game |-> Unwrap(u).state, ret |-> Some(Unwrap(u).mutations)]
    ELSE [game |-> g, ret |-> None]

\* Game::state: the phase of the active seat
game_state(g) ==
    LET pl == get_player(g, g.turn)
    IN IF IsSome(pl) /\ Unwrap(pl).phase = "Action" THEN "ActionPhase"
       ELSE IF IsSome(pl) /\ Unwrap(pl).phase = "Buy" THEN "BuyPhase"
       ELSE "None"

\* enum Action
Action == {"EndAction", "EndBuy"}

\* Game::act
act(g, action) ==
    LET u == [state |-> g, mutations |-> <<>>]
    IN CASE action = "EndAction" /\ game_state(g) = "ActionPhase" ->
              commit(g, Required(u, <<SetPhase(g.turn, "Buy")>>))
         [] action = "EndBuy" /\ game_state(g) = "BuyPhase" ->
              CHOOSE r \in
                  { IF IsSome(e) /\ IsSome(num_players(g))
                    THEN commit(g, begin_turn(Unwrap(e),
                                              next(g.turn, Unwrap(num_players(g)))))
                    ELSE commit(g, None)
                    : e \in {end_turn(u, g.turn)} } : TRUE
         [] OTHER -> commit(g, None)

---------------------------------------------------------------------------
(* The raw mutation interface: a board built by BoardState::new and driven *)
(* by single mutations.  A caller keeps the board it had when a mutation   *)
(* is rejected (mutate consumes a clone).                                  *)

\* cards, players and values the mutations are drawn from
CardInputs == {"Copper", "Estate"}
OptCardInputs == {None} \cup {Some(c) : c \in CardInputs}
PlayerInputs == {0, 3}
RevealInputs == {RevealAll, RevealJust(just(0))}
SeedInputs == {None} \cup {Some(s) : s \in 0..MaxSeed}

\* the piles an accepted AddStack has created so far, with their first count
MadeAfter(md, pre, m) ==
    IF m.kind = "AddStack" /\ IsSome(mutate(pre, m))
    THEN [md EXCEPT ![m.card] = Some(m.n)]
    ELSE md

Apply(m) ==
    LET r == mutate(board, m)
    IN /\ ~crashed
       /\ board' = IF IsSome(r) THEN Unwrap(r) ELSE board
       /\ made' = MadeAfter(made, board, m)
       /\ crashed' = IsPanic(r)
       /\ UNCHANGED <<game, log, glast, twin, pending, built, entropy>>

DoSetPlayers == \E n \in Players : Apply(SetPlayers(n))
DoAddStack == \E c \in CardInputs, n \in 0..MaxCount : Apply(AddStack(c, n))
DoGainCard == \E p \in PlayerInputs, c \in CardInputs : Apply(GainCard(p, c))
DoShuffleDiscard == \E p \in PlayerInputs : Apply(ShuffleDiscard(p))
DoDrawCard == \E p \in PlayerInputs, oc \in OptCardInputs : Apply(DrawCard(p, oc))
DoRevealTopDeck ==
    \E p \in PlayerInputs, oc \in OptCardInputs, r \in RevealInputs :
        Apply(RevealTopDeck(p, oc, r))
DoDiscardHand == \E p \in PlayerInputs, c \in CardInputs : Apply(DiscardHand(p, c))
DoDiscardPlayed == \E p \in PlayerInputs : Apply(DiscardPlayed(p))
\* the two variants that reach the last arm of mutate: the call panics
DoPlayCard == \E p \in PlayerInputs, c \in CardInputs : Apply(PlayCard(p, c))
DoRevealHandCards ==
    \E p \in PlayerInputs, r \in RevealInputs : Apply(RevealHandCards(p, None, r))

Init ==
    /\ board \in {new(seed) : seed \in SeedInputs}
    /\ made = [c \in Card |-> None]
    /\ crashed = FALSE
    /\ game = None
    /\ log = <<>>
    /\ glast = [op |-> "none"]
    /\ twin = None
    /\ pending = <<>>
    /\ built = <<>>
    /\ entropy = 0

Next ==
    \/ DoSetPlayers
    \/ DoAddStack
    \/ DoGainCard
    \/ DoShuffleDiscard
    \/ DoDrawCard
    \/ DoRevealTopDeck
    \/ DoDiscardHand
    \/ DoDiscardPlayed
    \/ DoPlayCard
    \/ DoRevealHandCards

Spec == Init /\ [][Next]_vars

---------------------------------------------------------------------------
(* Composite application: the same board driven by mutate_multi and        *)
(* rebuilt by from_mutations, on lists drawn from MultiInputs.             *)

MultiInputs ==
    { SetPlayers(2), SetPlayers(3), AddStack("Copper", MaxCount),
      AddStack("Estate", 1),
      GainCard(0, "Copper"), GainCard(0, "Estate"),
      ShuffleDiscard(0), DrawCard(0, None), DrawCard(0, Some("Estate")),
      PlayCard(0, "Copper") }

ListsUpTo(S, n) == UNION { [1..k -> S] : k \in 0..n }

RECURSIVE MadeAfterAll(_, _, _)
MadeAfterAll(md, pre, ms) ==
    IF ms = <<>> THEN md
    ELSE LET r == mutate(pre, Head(ms))
         IN IF IsSome(r)
            THEN MadeAfterAll(MadeAfter(md, pre, Head(ms)), Unwrap(r), Tail(ms))
            ELSE md

DoMutateMulti ==
    \E ms \in ListsUpTo(MultiInputs, MaxList) :
        LET r == mutate_multi(board, ms)
        IN /\ ~crashed
           /\ board' = IF IsSome(r) THEN Unwrap(r) ELSE board
           /\ made' = IF IsSome(r) THEN MadeAfterAll(made, board, ms) ELSE made
           /\ crashed' = IsPanic(r)
           /\ UNCHANGED <<game, log, glast, twin, pending, built, entropy>>

DoFromMutations ==
    \E ms \in ListsUpTo(MultiInputs, MaxList) :
        LET r == from_mutations(ms)
        IN /\ ~crashed
           /\ crashed' = IsPanic(r)
           /\ board' = IF IsSome(r) THEN Unwrap(r) ELSE board
           /\ made' = IF IsSome(r)
                      THEN MadeAfterAll([c \in Card |-> None], new(None), ms)
                      ELSE made
           /\ UNCHANGED <<game, log, glast, twin, pending, built, entropy>>

MultiNext ==
    \/ DoMutateMulti
    \/ DoFromMutations

MultiSpec == Init /\ [][MultiNext]_vars

---------------------------------------------------------------------------
(* A game session: Game::new_from_seed, then calls of the game's           *)
(* operations; log is every mutation list the game has returned, in order. *)

\* longest session after construction
MaxSession == 3

RulesInputs == { [players |-> n, set |-> FIRST_SET] : n \in Players }

GameInit ==
    /\ board = new(None)
    /\ made = [c \in Card |-> None]
    /\ crashed = FALSE
    /\ game = None
    /\ log = <<>>
    /\ glast = [op |-> "none", n |-> 0]
    /\ twin = None
    /\ pending = <<>>
    /\ built = <<>>
    /\ entropy = 0

NewFromSeed ==
    \E rules \in RulesInputs, seed \in 0..MaxSeed :
        LET r == new_from_seed(rules, seed)
        IN /\ ~crashed
           /\ IsNone(game)
           /\ game' = IF r.panic THEN None ELSE Some(r.game)
           /\ log' = IF r.panic THEN log ELSE r.muts
           /\ crashed' = r.panic
           /\ glast' = [op |-> "new_from_seed", n |-> 0, rules |-> rules, seed |-> seed]
           /\ UNCHANGED <<board, made, twin, pending, built, entropy>>

GameDrawCard ==
    \E p \in Player :
        /\ ~crashed
        /\ IsSome(game)
        /\ glast.n < MaxSession
        /\ LET d == game_draw_card(Unwrap(game), p)
           IN /\ game' = Some(d.game)
              /\ log' = IF IsSome(d.ret) THEN log \o Unwrap(d.ret) ELSE log
              /\ glast' = [op |-> "draw_card", n |-> glast.n + 1, p |-> p,
                           pre |-> Unwrap(game), ret |-> d.ret,
                           rules |-> glast.rules, seed |-> glast.seed]
        /\ UNCHANGED <<board, made, crashed, twin, pending, built, entropy>>

GameNext ==
    \/ NewFromSeed
    \/ GameDrawCard

GameSpec == GameInit /\ [][GameNext]_vars

---------------------------------------------------------------------------
(* Repeated construction (tests::rng_seeds_stable): independent calls of   *)
(* Game::new_from_seed, each at its own moment; built keeps what each call *)
(* returned.                                                               *)

\* most games constructed
MaxGames == 3

BuildInit == GameInit

Construct ==
    \E rules \in RulesInputs, seed \in 0..MaxSeed :
        LET r == new_from_seed(rules, seed)
        IN /\ ~crashed
           /\ Len(built) < MaxGames
           /\ built' = Append(built, [rules |-> rules, seed |-> seed,
                                      game |-> r.game, muts |-> r.muts])
           /\ crashed' = r.panic
           /\ entropy' = (entropy + 1) % 8
           /\ UNCHANGED <<board, made, game, log, glast, twin, pending>>

BuildNext == Construct

BuildSpec == BuildInit /\ [][BuildNext]_vars

---------------------------------------------------------------------------
(* Two boards created with the same seed and driven by the same mutations  *)
(* (tests::shuffle_stable): the second board follows the first, at most    *)
(* MaxLag mutations behind.  entropy is the process's ambient randomness,  *)
(* different at every call; the code never reads it.                       *)

\* most mutations the second board is behind the first
MaxLag == 1

TwinInputs ==
    { SetPlayers(2), AddStack("Copper", MaxCount), AddStack("Estate", 1),
      GainCard(0, "Copper"), GainCard(0, "Estate"),
      ShuffleDiscard(0), DrawCard(0, None) }

\* the board a caller holds after submitting m: the new one, or the one it
\* had when m is rejected
ApplyTo(b, m) ==
    LET r == mutate(b, m)
    IN IF IsSome(r) THEN Unwrap(r) ELSE b

TwinInit ==
    \E seed \in 0..MaxSeed :
        /\ board = new(Some(seed))
        /\ twin = Some(new(Some(seed)))
        /\ made = [c \in Card |-> None]
        /\ crashed = FALSE
        /\ game = None
        /\ log = <<>>
        /\ glast = [op |-> "none"]
        /\ pending = <<>>
        /\ built = <<>>
        /\ entropy = 0

TwinDrive ==
    \E m \in TwinInputs :
        /\ Len(pending) < MaxLag
        /\ board' = ApplyTo(board, m)
        /\ made' = MadeAfter(made, board, m)
        /\ pending' = Append(pending, m)
        /\ entropy' = (entropy + 1) % 8
        /\ UNCHANGED <<crashed, game, log, glast, twin, built>>

TwinFollow ==
    /\ Len(pending) > 0
    /\ twin' = Some(ApplyTo(Unwrap(twin), Head(pending)))
    /\ pending' = Tail(pending)
    /\ entropy' = (entropy + 1) % 8
    /\ UNCHANGED <<board, made, crashed, game, log, glast, built>>

TwinNext ==
    \/ TwinDrive
    \/ TwinFollow

TwinSpec == TwinInit /\ [][TwinNext]_vars

---------------------------------------------------------------------------
(* Partial-knowledge replay (dom_test main.rs): a log is replayed from the *)
(* empty board, with or without generator, and next to it a replayer       *)
(* without generator is fed the same log with some of its draws and        *)
(* reveals anonymized.  board is the replay of the log, twin the replay of *)
(* the rewritten log (None once a rewritten mutation has been rejected).   *)
(* Only logs that replay are extended.                                     *)

\* the closure of mutations_for_player, for one mutation
mutation_for_player(x, player) ==
    CASE x.kind = "RevealHandCards" -> Panic
      [] x.kind = "DrawCard" /\ x.p # player -> DrawCard(x.p, None)
      [] OTHER -> x

\* mutations_for_player (main.rs): the log as seen by one seat
mutations_for_player(mutations, player) ==
    [i \in 1..Len(mutations) |-> mutation_for_player(mutations[i], player)]

\* the rewriting of a reveal or draw whose audience excludes the replayer:
\* Some(c) becomes None
Anonymized(m) ==
    IF m.kind \in {"DrawCard", "RevealTopDeck"} THEN [m EXCEPT !.optcard = None] ELSE m

FilterCards == {"Copper", "Estate", "Silver"}

FilterInputs ==
    {SetPlayers(2)}
        \cup {AddStack(c, IF c = "Copper" THEN MaxCount ELSE 1) : c \in FilterCards}
        \cup {GainCard(0, c) : c \in FilterCards}
        \cup {ShuffleDiscard(0)}
        \cup {DrawCard(0, None), DrawCard(0, Some("Copper")), DrawCard(0, Some("Estate"))}
        \cup {RevealTopDeck(0, Some("Estate"), RevealJust(just(0)))}
        \cup {DiscardHand(0, c) : c \in FilterCards}

FilterInit ==
    /\ board \in {new(seed) : seed \in SeedInputs}
    /\ twin = Some(new(None))
    /\ made = [c \in Card |-> None]
    /\ crashed = FALSE
    /\ game = None
    /\ log = <<>>
    /\ glast = [op |-> "none"]
    /\ pending = <<>>
    /\ built = <<>>
    /\ entropy = 0

\* the log grows by m, the rewritten log by w
Replay(m, w) ==
    /\ IsSome(twin)
    /\ IsSome(mutate(board, m))
    /\ board' = Unwrap(mutate(board, m))
    /\ twin' = LET r == mutate(Unwrap(twin), w) IN IF IsSome(r) THEN r ELSE None
    /\ made' = MadeAfter(made, board, m)
    /\ UNCHANGED <<crashed, game, log, glast, pending, built, entropy>>

\* the replayer is the seat the mutation concerns, or the mutation hides nothing
ReplayKept == \E m \in FilterInputs : Replay(m, mutation_for_player(m, m.p))

\* the replayer is another seat: a draw is anonymized
ReplayFiltered ==
    \E m \in FilterInputs, t \in Player :
        /\ mutation_for_player(m, t) # m
        /\ Replay(m, mutation_for_player(m, t))

\* a reveal is anonymized
ReplayAnonymized ==
    \E m \in FilterInputs :
        /\ m.kind = "RevealTopDeck"
        /\ Anonymized(m) # m
        /\ Replay(m, Anonymized(m))

FilterNext ==
    \/ ReplayKept
    \/ ReplayFiltered
    \/ ReplayAnonymized

FilterSpec == FilterInit /\ [][FilterNext]_vars

---------------------------------------------------------------------------
(* A game played through the action interface: construction by             *)
(* new_from_seed, the begin_turn(P0) that ends construction, then any      *)
(* sequence of actions, legal or not.                                      *)

\* most calls of act in one game
MaxActs == 8

\* begin_turn has been invoked on the game
Begun == glast.op = "begin_turn" \/ (glast.op = "act" /\ glast.begun)

BeginTurn ==
    /\ ~crashed
    /\ IsSome(game)
    /\ ~Begun
    /\ \E r \in {commit(Unwrap(game),
                       begin_turn([state |-> Unwrap(game), mutations |-> <<>>], 0))} :
          /\ game' = Some(r.game)
          /\ log' = IF IsSome(r.ret) THEN log \o Unwrap(r.ret) ELSE log
          /\ glast' = [op |-> "begin_turn", n |-> glast.n, pre |-> Unwrap(game),
                       ret |-> r.ret]
    /\ UNCHANGED <<board, made, crashed, twin, pending, built, entropy>>

Act(action) ==
    /\ ~crashed
    /\ IsSome(game)
    /\ glast.n < MaxActs
    /\ \E r \in {act(Unwrap(game), action)} :
          /\ game' = Some(r.game)
          /\ log' = IF IsSome(r.ret) THEN log \o Unwrap(r.ret) ELSE log
          /\ glast' = [op |-> "act", n |-> glast.n + 1, action |-> action,
                       begun |-> Begun, pre |-> Unwrap(game), ret |-> r.ret]
    /\ UNCHANGED <<board, made, crashed, twin, pending, built, entropy>>

ActEndAction == Act("EndAction")
ActEndBuy == Act("EndBuy")

TurnNext ==
    \/ NewFromSeed
    \/ BeginTurn
    \/ ActEndAction
    \/ ActEndBuy

TurnSpec == GameInit /\ [][TurnNext]_vars

---------------------------------------------------------------------------
(* Seat cycling: Player::next applied again and again, for every number of *)
(* players and every starting player.  glast holds the walk.               *)

\* most applications of next in one walk
MaxSteps == 8

SeatInit ==
    /\ glast \in { [op |-> "next", players |-> n, start |-> p, seat |-> p, visited |-> <<>>]
                    : n \in Players, p \in Player }
    /\ board = new(None)
    /\ made = [c \in Card |-> None]
    /\ crashed = FALSE
    /\ game = None
    /\ log = <<>>
    /\ twin = None
    /\ pending = <<>>
    /\ built = <<>>
    /\ entropy = 0

SeatStep ==
    /\ Len(glast.visited) < MaxSteps
    /\ glast' = [glast EXCEPT !.seat = next(glast.seat, glast.players),
                              !.visited = Append(@, next(glast.seat, glast.players))]
    /\ UNCHANGED <<board, made, crashed, game, log, twin, pending, built, entropy>>

SeatNext == SeatStep

SeatSpec == SeatInit /\ [][SeatNext]_vars

---------------------------------------------------------------------------
(* The per-seat fields: DiscardPlayed, ChangeTurn and the four setters, as *)
(* functions of a board.  The boards are drawn from a bounded set of       *)
(* BoardState values: no seat at all, or two seats that hold cards in      *)
(* every zone.  (Cards enter played through PlayCard, whose arm of mutate   *)
(* is unimplemented in state.rs, so the played sets are given here.)       *)

\* largest count of one card in a played or discard set of FieldInit
MaxPlayed == 1
\* largest value given to SetBuys, SetActions and SetGold
MaxValue == 1

\* the card sets over CardInputs with counts up to MaxPlayed
FieldSets ==
    { [c \in Card |-> IF c \in CardInputs THEN f[c] ELSE 0]
      : f \in [CardInputs -> 0..MaxPlayed] }

\* a two-seat board: both piles exist, one Copper is left in the supply, P0
\* holds the given played and discard sets, P1 a played Copper
FieldBoard(pl, di) ==
    [new(None) EXCEPT
       !.stacks = insert(insert(empty, "Copper", 1), "Estate", 1),
       !.supply = insert(empty, "Copper", 1),
       !.players =
          << [FreshPlayer EXCEPT !.hand = <<Some("Copper"), None>>,
                                 !.draw = <<None>>,
                                 !.played = pl, !.discard = di],
             [FreshPlayer EXCEPT !.hand = <<None>>,
                                 !.draw = <<None, None>>,
                                 !.played = insert(empty, "Copper", 1)] >>]

FieldInit ==
    /\ board \in {new(None)} \cup { FieldBoard(pl, di) : pl \in FieldSets, di \in FieldSets }
    /\ made = [c \in Card |-> None]
    /\ crashed = FALSE
    /\ game = None
    /\ log = <<>>
    /\ glast = [op |-> "none"]
    /\ twin = None
    /\ pending = <<>>
    /\ built = <<>>
    /\ entropy = 0

DoChangeTurn == \E p \in Player : Apply(ChangeTurn(p))
DoSetPhase == \E p \in PlayerInputs, ph \in PlayerPhase : Apply(SetPhase(p, ph))
DoSetBuys == \E p \in PlayerInputs, v \in 0..MaxValue : Apply(SetBuys(p, v))
DoSetActions == \E p \in PlayerInputs, v \in 0..MaxValue : Apply(SetActions(p, v))
DoSetGold == \E p \in PlayerInputs, v \in 0..MaxValue : Apply(SetGold(p, v))

FieldNext ==
    \/ DoChangeTurn
    \/ DoSetPhase
    \/ DoSetBuys
    \/ DoSetActions
    \/ DoSetGold
    \/ DoDiscardPlayed

FieldSpec == FieldInit /\ [][FieldNext]_vars

\* boards of the same shape, P0 with up to MaxPlayed Coppers in played and an
\* empty discard, driven by the mutations that move cards between the supply
\* and the zones of a seat
ZoneInit ==
    /\ board \in { FieldBoard([c \in Card |-> IF c = "Copper" THEN k ELSE 0], empty)
                    : k \in 0..MaxPlayed }
    /\ made = [c \in Card |-> None]
    /\ crashed = FALSE
    /\ game = None
    /\ log = <<>>
    /\ glast = [op |-> "none"]
    /\ twin = None
    /\ pending = <<>>
    /\ built = <<>>
    /\ entropy = 0

ZoneNext ==
    \/ DoGainCard
    \/ DoShuffleDiscard
    \/ DoDrawCard
    \/ DoDiscardHand
    \/ DoDiscardPlayed

ZoneSpec == ZoneInit /\ [][ZoneNext]_vars

---------------------------------------------------------------------------
(* Properties *)

IsSeat(b, p) == p + 1 <= Len(b.players)

\* the top (last) entry of p's draw pile on board b; p is a seat with a non-empty pile
TopOf(b, p) == b.players[p + 1].draw[Len(b.players[p + 1].draw)]

HasTop(b, p) == IsSeat(b, p) /\ Len(b.players[p + 1].draw) > 0

MultiLists == ListsUpTo(MultiInputs, MaxList)

\* the state after the first i mutations of ms, each applied to the result of
\* the one before it; None as soon as one is rejected
RECURSIVE StateAfter(_, _, _)
StateAfter(b, ms, i) ==
    IF i = 0 THEN Some(b)
    ELSE LET prev == StateAfter(b, ms, i - 1)
         IN IF IsSome(prev) THEN mutate(Unwrap(prev), ms[i]) ELSE prev

AllAccepted(b, ms) == \A i \in 1..Len(ms) : IsSome(StateAfter(b, ms, i))

\* a mutation of ms is rejected: applied to the result of the ones before it,
\* it gives None
SomeRejected(b, ms) ==
    \E i \in 1..Len(ms) :
        /\ IsSome(StateAfter(b, ms, i - 1))
        /\ IsNone(mutate(Unwrap(StateAfter(b, ms, i - 1)), ms[i]))

\* C1: mutate_multi(list) returns a state exactly when every mutation of the
\* list, applied left to right to the result of the previous one, is accepted;
\* that state is the sequential application of the whole list, and when any
\* mutation is rejected the result is None (no partially applied state).
C1_AllOrNothing ==
    \A ms \in MultiLists :
        LET r == mutate_multi(board, ms)
        IN /\ IsSome(r) <=> AllAccepted(board, ms)
           /\ AllAccepted(board, ms) => r = StateAfter(board, ms, Len(ms))
           /\ SomeRejected(board, ms) => r = None

\* a board with seats and a list whose first mutation is accepted and whose
\* second is rejected: mutate_multi gives None
C1_Witness ==
    /\ Len(board.players) = 2
    /\ \E ms \in MultiLists :
          /\ Len(ms) = 2
          /\ IsSome(mutate(board, ms[1]))
          /\ Unwrap(mutate(board, ms[1])) # board
          /\ IsNone(mutate_multi(board, ms))

\* the board from_mutations(log) rebuilds is a knowledge-weakening of live:
\* the same supply, stacks, trash, seats, hands, played and discard, and draw
\* piles of the same length whose entries are the live entry or None
Weakening(replay, live) ==
    /\ CardSetEq(replay.supply, live.supply)
    /\ CardSetEq(replay.stacks, live.stacks)
    /\ replay.trash = live.trash
    /\ Len(replay.players) = Len(live.players)
    /\ \A i \in 1..Len(live.players) :
          /\ replay.players[i].hand = live.players[i].hand
          /\ CardSetEq(replay.players[i].played, live.players[i].played)
          /\ CardSetEq(replay.players[i].discard, live.players[i].discard)
          /\ Len(replay.players[i].draw) = Len(live.players[i].draw)
          /\ \A j \in 1..Len(live.players[i].draw) :
                replay.players[i].draw[j] \in {live.players[i].draw[j], None}

\* C2 as stated: for the log of a game session, from_mutations(log) succeeds
\* and gives a BoardState equal (PartialEq for BoardState) to the live game's.
C2_ReplayEqual ==
    IsSome(game) =>
        LET r == from_mutations(log)
        IN IsSome(r) /\ BoardStateEq(Unwrap(r), Unwrap(game))

\* C2 amended: for the log of a game session, from_mutations(log) succeeds and
\* gives a knowledge-weakening of the live game's state: equal in supply,
\* stacks, trash and every seat's hand, played and discard, with draw piles of
\* the same length whose entries are the live entry or None.
C2_ReplayWeakening ==
    IsSome(game) =>
        LET r == from_mutations(log)
        IN IsSome(r) /\ Weakening(Unwrap(r), Unwrap(game))

\* a session in which, after construction, a draw returned mutations
C2_Witness ==
    /\ IsSome(game)
    /\ glast.op = "draw_card"
    /\ IsSome(glast.ret)
    /\ Len(Unwrap(glast.ret)) = 2
    /\ Len(log) > Len(InitMuts(glast.rules))

\* C3: DrawCard(p, optCard) is rejected when p is not a seat, when p.draw is
\* empty, or when the top entry is Some(c) and optCard is Some(c') with
\* c' # c; in every other case it is accepted.
C3_DrawCardRejection ==
    \A p \in Player, oc \in OptCardInputs :
        LET r == mutate(board, DrawCard(p, oc))
            rejected ==
                \/ ~IsSeat(board, p)
                \/ Len(board.players[p + 1].draw) = 0
                \/ /\ IsSome(TopOf(board, p))
                   /\ IsSome(oc)
                   /\ Unwrap(oc) # Unwrap(TopOf(board, p))
        IN IsNone(r) <=> rejected

\* the top of P0's draw pile is known to be Copper and DrawCard(P0, Some(Estate))
\* is rejected
C3_Witness ==
    /\ HasTop(board, 0)
    /\ TopOf(board, 0) = Some("Copper")
    /\ IsNone(mutate(board, DrawCard(0, Some("Estate"))))
    /\ IsSome(mutate(board, DrawCard(0, Some("Copper"))))

\* C4: an accepted DrawCard(p, optCard) removes exactly the top entry of
\* p.draw and appends to p.hand exactly one entry: the popped entry when it is
\* Some, otherwise optCard; nothing else changes.
C4_DrawCardEffect ==
    \A p \in Player, oc \in OptCardInputs :
        LET r == mutate(board, DrawCard(p, oc))
        IN IsSome(r) =>
              LET pl == board.players[p + 1]
                  top == pl.draw[Len(pl.draw)]
                  entry == IF IsSome(top) THEN top ELSE oc
              IN Unwrap(r) =
                    [board EXCEPT
                       !.players[p + 1].draw = SubSeq(pl.draw, 1, Len(pl.draw) - 1),
                       !.players[p + 1].hand = pl.hand \o <<entry>>]

\* P0 has drawn before, and DrawCard(P0, None) on a top known to be Copper
\* puts Some(Copper) in the hand
C4_Witness ==
    /\ HasTop(board, 0)
    /\ TopOf(board, 0) = Some("Copper")
    /\ LET r == mutate(board, DrawCard(0, None))
       IN /\ IsSome(r)
          /\ Unwrap(r).players[1].hand = board.players[1].hand \o <<Some("Copper")>>
    /\ Len(board.players[1].hand) > 0

\* C5: RevealTopDeck(p, Some(Y), reveal) applied when the top entry of p.draw
\* is already known as Some(X) with X # Y is rejected, so a draw-pile entry
\* known as X is never rewritten to a different known card Y.
C5_RevealNeverRewrites ==
    \A p \in Player, y \in CardInputs, rv \in RevealInputs :
        (HasTop(board, p) /\ IsSome(TopOf(board, p)) /\ Unwrap(TopOf(board, p)) # y)
            => IsNone(mutate(board, RevealTopDeck(p, Some(y), rv)))

\* C6: an accepted RevealTopDeck(p, optCard, reveal) leaves p.draw with the
\* same length and replaces its top entry with the more informative of the
\* previous top and optCard (a known top stays known when optCard is None);
\* the result does not depend on the audience and no other field changes.
C6_RevealKeepsRicher ==
    \A p \in Player, oc \in OptCardInputs, rv \in RevealInputs :
        LET r == mutate(board, RevealTopDeck(p, oc, rv))
        IN IsSome(r) =>
              LET pl == board.players[p + 1]
                  top == pl.draw[Len(pl.draw)]
              IN /\ Unwrap(r) =
                       [board EXCEPT
                          !.players[p + 1].draw[Len(pl.draw)] = OptOr(top, oc)]
                 /\ \A rv2 \in RevealInputs :
                       mutate(board, RevealTopDeck(p, oc, rv2)) = r

\* the fresh seat SetPlayers creates
EmptySeat(pl) ==
    /\ pl.hand = <<>>
    /\ pl.draw = <<>>
    /\ \A c \in Card : pl.played[c] = 0 /\ pl.discard[c] = 0
    /\ pl.actions = 0
    /\ pl.buys = 0
    /\ pl.gold = 0
    /\ pl.phase = "NotTurn"

\* what SetPlayers(n) gives on the board of this state
SetPlayersContract ==
    \A n \in Players :
        LET r == mutate(board, SetPlayers(n))
        IN /\ IsSome(r) <=> Len(board.players) = 0
           /\ IsSome(r) =>
                 /\ Len(Unwrap(r).players) = n
                 /\ \A q \in Player :
                       IF q < n
                       THEN /\ IsSome(get_player(Unwrap(r), q))
                            /\ EmptySeat(Unwrap(get_player(Unwrap(r), q)))
                       ELSE IsNone(get_player(Unwrap(r), q))
                 /\ Unwrap(r) = [board EXCEPT !.players = Unwrap(r).players]

\* C7: SetPlayers(N) is accepted only when the seat list is empty and then
\* creates exactly N fresh seats P0..P(N-1), the seats of ordinal >= N staying
\* absent; once seats exist every SetPlayers is rejected, the number of seats
\* never changes again, and it is always in {0, 2, 3, 4}.
C7_SetPlayersOnce ==
    /\ [](SetPlayersContract /\ Len(board.players) \in {0, 2, 3, 4})
    /\ [][Len(board.players) # 0 => Len(board'.players) = Len(board.players)]_vars

\* three seats exist, a card has been gained since, and SetPlayers(2) and
\* SetPlayers(3) are rejected
C7_Witness ==
    /\ Len(board.players) = 3
    /\ \E c \in Card : board.players[1].discard[c] > 0
    /\ IsNone(mutate(board, SetPlayers(2)))
    /\ IsNone(mutate(board, SetPlayers(3)))

\* C8: AddStack(card, n) is accepted only when no pile for card was ever
\* created, and then sets supply[card] to n; once a pile for card has been
\* created every later AddStack for it is rejected, also when the pile has
\* been emptied to 0 by GainCard.
C8_AddStackOnce ==
    \A c \in CardInputs, n \in 0..MaxCount :
        LET r == mutate(board, AddStack(c, n))
        IN /\ IsSome(r) <=> IsNone(made[c])
           /\ IsSome(r) =>
                 /\ Unwrap(r).supply[c] = n
                 /\ Unwrap(r).supply = [board.supply EXCEPT ![c] = n]

\* the Copper pile was created with one card, P0 gained it, the pile is empty
\* and AddStack(Copper, 1) is rejected
C8_Witness ==
    /\ made["Copper"] = Some(1)
    /\ board.supply["Copper"] = 0
    /\ IsSeat(board, 0)
    /\ board.players[1].discard["Copper"] = 1
    /\ IsNone(mutate(board, AddStack("Copper", 1)))

\* C9: stacks.contains(c) holds iff an AddStack for c was accepted earlier;
\* count_supply(c) is None iff the pile never existed and Some(remaining)
\* for an existing pile, Some(0) when it is empty.
C9_CountSupply ==
    \A c \in Card :
        /\ contains(board.stacks, c) <=> IsSome(made[c])
        /\ IsNone(count_supply(board, c)) <=> IsNone(made[c])
        /\ IsSome(made[c]) => count_supply(board, c) = Some(board.supply[c])

\* the Copper pile was created with one card and emptied by a GainCard:
\* count_supply(Copper) is Some(0), and count_supply(Estate) is None
C9_Witness ==
    /\ made["Copper"] = Some(1)
    /\ IsNone(made["Estate"])
    /\ \E i \in 1..Len(board.players) : board.players[i].discard["Copper"] = 1
    /\ count_supply(board, "Copper") = Some(0)
    /\ count_supply(board, "Estate") = None

\* C10: GainCard(p, card) is rejected when supply[card] is 0 or p is not a
\* seat, and no state (so no changed supply) comes out of a rejection; when
\* accepted it decrements supply[card] by exactly 1, increments the count of
\* card in p.discard by exactly 1, and changes nothing else.
C10_GainCard ==
    \A p \in Player, c \in CardInputs :
        LET r == mutate(board, GainCard(p, c))
        IN /\ IsNone(r) <=> (board.supply[c] = 0 \/ ~IsSeat(board, p))
           /\ IsSome(r) =>
                 Unwrap(r) =
                    [board EXCEPT
                       !.supply[c] = board.supply[c] - 1,
                       !.players[p + 1].discard[c] =
                           board.players[p + 1].discard[c] + 1]

\* the Copper supply has a card, P3 is not a seat and GainCard(P3, Copper) is
\* rejected, while GainCard(P0, Copper) is accepted; P0 has gained an Estate
C10_Witness ==
    /\ board.supply["Copper"] > 0
    /\ IsSeat(board, 0)
    /\ ~IsSeat(board, 3)
    /\ board.players[1].discard["Estate"] > 0
    /\ IsNone(mutate(board, GainCard(3, "Copper")))
    /\ IsSome(mutate(board, GainCard(0, "Copper")))

\* C11: ShuffleDiscard(p) is rejected exactly when p is not a seat or p.draw
\* is non-empty; accepted on a board with a generator it empties p.discard
\* and makes p.draw a sequence of Some(card) entries holding every card as
\* often as the former discard did (so of the same length); only p's discard
\* and draw and the generator change.
C11_ShuffleDiscard ==
    \A p \in Player :
        LET r == mutate(board, ShuffleDiscard(p))
        IN /\ IsNone(r) <=> (~IsSeat(board, p) \/ Len(board.players[p + 1].draw) # 0)
           /\ (IsSome(r) /\ IsSome(board.rand)) =>
                 LET old == board.players[p + 1]
                     nw == Unwrap(r).players[p + 1]
                 IN /\ \A c \in Card : nw.discard[c] = 0
                    /\ \A i \in 1..Len(nw.draw) : \E c \in Card : nw.draw[i] = Some(c)
                    /\ \A c \in Card :
                          Cardinality({i \in 1..Len(nw.draw) : nw.draw[i] = Some(c)})
                              = old.discard[c]
                    /\ Unwrap(r) =
                          [board EXCEPT !.players[p + 1].discard = nw.discard,
                                        !.players[p + 1].draw = nw.draw,
                                        !.rand = Unwrap(r).rand]

\* a board with a generator where P0's draw pile is empty and the discard
\* holds a Copper and an Estate: ShuffleDiscard(P0) is accepted, and
\* ShuffleDiscard(P3) is rejected
C11_Witness ==
    /\ IsSome(board.rand)
    /\ IsSeat(board, 0)
    /\ board.players[1].draw = <<>>
    /\ board.players[1].discard["Copper"] = 1
    /\ board.players[1].discard["Estate"] = 1
    /\ IsSome(mutate(board, ShuffleDiscard(0)))
    /\ Len(Unwrap(mutate(board, ShuffleDiscard(0))).players[1].draw) = 2
    /\ IsNone(mutate(board, ShuffleDiscard(3)))

\* the number of cards of a CardSet
RECURSIVE TotalFrom(_, _)
TotalFrom(set, i) ==
    IF i > Len(CardOrder) THEN 0 ELSE set[CardOrder[i]] + TotalFrom(set, i + 1)

Total(set) == TotalFrom(set, 1)

\* C12: an accepted ShuffleDiscard(p) on a board without a generator empties
\* p.discard and sets p.draw to exactly as many entries as the discard held,
\* all of them None; nothing else changes.
C12_ShuffleNoRng ==
    \A p \in Player :
        LET r == mutate(board, ShuffleDiscard(p))
        IN (IsSome(r) /\ IsNone(board.rand)) =>
              LET old == board.players[p + 1]
                  nw == Unwrap(r).players[p + 1]
              IN /\ \A c \in Card : nw.discard[c] = 0
                 /\ Len(nw.draw) = Total(old.discard)
                 /\ \A i \in 1..Len(nw.draw) : nw.draw[i] = None
                 /\ Unwrap(r) =
                       [board EXCEPT !.players[p + 1].discard = nw.discard,
                                     !.players[p + 1].draw = nw.draw]

\* a board without a generator where P0's discard holds a Copper and an
\* Estate: the shuffle leaves two unknown entries
C12_Witness ==
    /\ IsNone(board.rand)
    /\ IsSeat(board, 0)
    /\ board.players[1].discard["Copper"] = 1
    /\ board.players[1].discard["Estate"] = 1
    /\ mutate(board, ShuffleDiscard(0)) # None
    /\ Unwrap(mutate(board, ShuffleDiscard(0))).players[1].draw = <<None, None>>

C16_VictorySupply ==
    IsSome(game) =>
        \A c \in {"Estate", "Duchy", "Province"} :
            count_supply(Unwrap(game), c)
                = Some(IF glast.rules.players = 2 THEN 8 ELSE 12)

\* a three-player first game right after construction: twelve Estates in the
\* supply and three with every seat
C16_Witness ==
    /\ IsSome(game)
    /\ glast.op = "new_from_seed"
    /\ glast.rules.players = 3
    /\ count_supply(Unwrap(game), "Estate") = Some(12)
    /\ \A i \in 1..3 :
          LET pl == Unwrap(game).players[i]
          IN Cardinality({k \in 1..Len(pl.hand) : pl.hand[k] = Some("Estate")})
               + Cardinality({k \in 1..Len(pl.draw) : pl.draw[k] = Some("Estate")}) = 3

\* C17 as stated: a three-player first game has count_supply(Estate) = 21 and
\* count_supply(Curse) = 20, a four-player one 24 and 30, with Duchy and
\* Province at 12 in both.
C17_SupplyAsStated ==
    (IsSome(game) /\ glast.rules.players \in {3, 4}) =>
        LET n == glast.rules.players
            g == Unwrap(game)
        IN /\ count_supply(g, "Estate") = Some(IF n = 3 THEN 21 ELSE 24)
           /\ count_supply(g, "Curse") = Some(IF n = 3 THEN 20 ELSE 30)
           /\ count_supply(g, "Duchy") = Some(12)
           /\ count_supply(g, "Province") = Some(12)

\* C17 amended: a three-player first game has count_supply(Estate) = 12 and
\* count_supply(Curse) = 20, a four-player one 12 and 30, with Duchy and
\* Province at 12 in both; 21 and 24 are the counts the Estate pile is created
\* with, before every seat takes its three starting Estates.
C17_SupplyAfterDeal ==
    (IsSome(game) /\ glast.rules.players \in {3, 4}) =>
        LET n == glast.rules.players
            g == Unwrap(game)
        IN /\ count_supply(g, "Estate") = Some(12)
           /\ count_supply(g, "Curse") = Some(IF n = 3 THEN 20 ELSE 30)
           /\ count_supply(g, "Duchy") = Some(12)
           /\ count_supply(g, "Province") = Some(12)
           /\ starting_count("Estate", n) = (IF n = 3 THEN 21 ELSE 24)
           /\ starting_count("Estate", n) - 3 * n = 12

\* a four-player first game right after construction, with thirty Curses
C17_Witness ==
    /\ IsSome(game)
    /\ glast.op = "new_from_seed"
    /\ glast.rules.players = 4
    /\ Len(Unwrap(game).players) = 4
    /\ count_supply(Unwrap(game), "Curse") = Some(30)
    /\ count_supply(Unwrap(game), "Estate") = Some(12)

\* the entries of v known as card c
Known(v, c) == Cardinality({i \in 1..Len(v) : v[i] = Some(c)})

\* the cards known as c that the seats from i on hold, in hand, played,
\* discard and draw
RECURSIVE HeldKnownFrom(_, _, _)
HeldKnownFrom(b, c, i) ==
    IF i > Len(b.players) THEN 0
    ELSE LET pl == b.players[i]
         IN Known(pl.hand, c) + pl.played[c] + pl.discard[c] + Known(pl.draw, c)
               + HeldKnownFrom(b, c, i + 1)

\* the entries, known or unknown, that the seats from i on hold
RECURSIVE HeldFrom(_, _)
HeldFrom(b, i) ==
    IF i > Len(b.players) THEN 0
    ELSE LET pl == b.players[i]
         IN Len(pl.hand) + Total(pl.played) + Total(pl.discard) + Len(pl.draw)
               + HeldFrom(b, i + 1)

\* the count the pile of c was created with, 0 when it never was
Created(c) == IF IsSome(made[c]) THEN Unwrap(made[c]) ELSE 0

RECURSIVE CreatedFrom(_)
CreatedFrom(i) ==
    IF i > Len(CardOrder) THEN 0 ELSE Created(CardOrder[i]) + CreatedFrom(i + 1)

\* C18 as stated: for every card c that has a stack, supply[c] plus the
\* entries known as c in every seat's hand, played, discard and draw plus the
\* number of c in the trash equals the count the pile of c was created with.
C18_PerCardConservation ==
    \A c \in Card :
        contains(board.stacks, c) =>
            board.supply[c] + HeldKnownFrom(board, c, 1)
                + Cardinality({i \in 1..Len(board.trash) : board.trash[i] = c})
              = Created(c)

\* C18 amended: the number of cards is conserved, not their identities: the
\* supply total plus the number of entries, known or unknown, in every seat's
\* hand, played, discard and draw plus the size of the trash equals the total
\* the piles were created with, and no supply count exceeds the count its pile
\* was created with.
C18_TotalConservation ==
    /\ Total(board.supply) + HeldFrom(board, 1) + Len(board.trash) = CreatedFrom(1)
    /\ \A c \in Card : board.supply[c] <= Created(c)

\* a board without a generator whose only Copper was gained and shuffled into
\* P0's draw pile as an unknown entry
C18_Witness ==
    /\ IsNone(board.rand)
    /\ made["Copper"] = Some(1)
    /\ board.supply["Copper"] = 0
    /\ IsSeat(board, 0)
    /\ board.players[1].draw = <<None>>
    /\ HeldKnownFrom(board, "Copper", 1) = 0
    /\ HeldFrom(board, 1) = 1

\* a mutation of every variant of the enumeration
VariantInputs ==
    {SetPlayers(n) : n \in Players}
        \cup {AddStack(c, n) : c \in CardInputs, n \in 0..MaxCount}
        \cup {ChangeTurn(p) : p \in PlayerInputs}
        \cup {SetPhase(p, ph) : p \in PlayerInputs, ph \in PlayerPhase}
        \cup {SetBuys(p, 1) : p \in PlayerInputs}
        \cup {SetActions(p, 1) : p \in PlayerInputs}
        \cup {SetGold(p, 1) : p \in PlayerInputs}
        \cup {DiscardHand(p, c) : p \in PlayerInputs, c \in CardInputs}
        \cup {DiscardPlayed(p) : p \in PlayerInputs}
        \cup {RevealHandCards(p, None, r) : p \in PlayerInputs, r \in RevealInputs}
        \cup {RevealTopDeck(p, oc, r) :
                 p \in PlayerInputs, oc \in OptCardInputs, r \in RevealInputs}
        \cup {DrawCard(p, oc) : p \in PlayerInputs, oc \in OptCardInputs}
        \cup {PlayCard(p, c) : p \in PlayerInputs, c \in CardInputs}
        \cup {GainCard(p, c) : p \in PlayerInputs, c \in CardInputs}
        \cup {ShuffleDiscard(p) : p \in PlayerInputs}

\* C19: for every variant of the Mutation enumeration and every board, mutate
\* returns a new state or a rejection and never panics, so no submitted
\* mutation aborts the process.
C19_MutateTotal ==
    /\ ~crashed
    /\ \A m \in VariantInputs : ~IsPanic(mutate(board, m))

C21_DiscardPlayed ==
    \A p \in Player :
        LET r == mutate(board, DiscardPlayed(p))
        IN IF ~IsSeat(board, p) THEN IsNone(r)
           ELSE LET old == board.players[p + 1]
                IN /\ IsSome(r)
                   /\ Unwrap(r) =
                         [board EXCEPT
                            !.players[p + 1].played = [c \in Card |-> 0],
                            !.players[p + 1].discard =
                                [c \in Card |-> old.discard[c] + old.played[c]]]

\* P0 has a Copper in played and a Copper in discard, and DiscardPlayed(P0)
\* has put both in the discard
C21_Witness ==
    /\ IsSeat(board, 0)
    /\ board.players[1].played["Copper"] > 0
    /\ board.players[1].discard["Copper"] > 0
    /\ IsSome(mutate(board, DiscardPlayed(0)))
    /\ Unwrap(mutate(board, DiscardPlayed(0))).players[1].discard["Copper"]
          = board.players[1].discard["Copper"] + board.players[1].played["Copper"]
    /\ Total(Unwrap(mutate(board, DiscardPlayed(0))).players[1].played) = 0

\* C22: ChangeTurn(p) and SetPhase / SetBuys / SetActions / SetGold(p, v) are
\* each rejected exactly when p is not a seat; when accepted each assigns only
\* its named field (turn, or p's phase, buys, actions, gold) and leaves every
\* other field of the board and of every player unchanged.
C22_Setters ==
    \A p \in Player :
        /\ \A m \in {ChangeTurn(p)}
                  \cup {SetPhase(p, ph) : ph \in PlayerPhase}
                  \cup {SetBuys(p, v) : v \in 0..MaxValue}
                  \cup {SetActions(p, v) : v \in 0..MaxValue}
                  \cup {SetGold(p, v) : v \in 0..MaxValue} :
              IsNone(mutate(board, m)) <=> ~IsSeat(board, p)
        /\ IsSeat(board, p) =>
              /\ Unwrap(mutate(board, ChangeTurn(p))) = [board EXCEPT !.turn = p]
              /\ \A ph \in PlayerPhase :
                    Unwrap(mutate(board, SetPhase(p, ph)))
                        = [board EXCEPT !.players[p + 1].phase = ph]
              /\ \A v \in 0..MaxValue :
                    /\ Unwrap(mutate(board, SetBuys(p, v)))
                          = [board EXCEPT !.players[p + 1].buys = v]
                    /\ Unwrap(mutate(board, SetActions(p, v)))
                          = [board EXCEPT !.players[p + 1].actions = v]
                    /\ Unwrap(mutate(board, SetGold(p, v)))
                          = [board EXCEPT !.players[p + 1].gold = v]

\* a two-seat board on which the turn has passed to P1 and P0 has been given
\* phase Buy, one buy, one action and one gold: P2 is rejected and SetGold(P0, 0)
\* changes the gold only
C22_Witness ==
    /\ Len(board.players) = 2
    /\ board.turn = 1
    /\ board.players[1].phase = "Buy"
    /\ board.players[1].buys = 1
    /\ board.players[1].actions = 1
    /\ board.players[1].gold = 1
    /\ IsNone(mutate(board, SetPhase(2, "Action")))
    /\ IsNone(mutate(board, ChangeTurn(2)))
    /\ Unwrap(mutate(board, SetGold(0, 0))).players[1].gold = 0
    /\ Unwrap(mutate(board, SetGold(0, 0))).players[1].buys = 1

\* the frame of a knowledge-weakening: same supply, stacks, trash, seats,
\* played and discard sets, hands and draw piles of the same lengths, and
\* every draw entry the original entry or None
WeakFrame(weak, orig) ==
    /\ CardSetEq(weak.supply, orig.supply)
    /\ CardSetEq(weak.stacks, orig.stacks)
    /\ weak.trash = orig.trash
    /\ Len(weak.players) = Len(orig.players)
    /\ \A i \in 1..Len(orig.players) :
          /\ CardSetEq(weak.players[i].played, orig.players[i].played)
          /\ CardSetEq(weak.players[i].discard, orig.players[i].discard)
          /\ Len(weak.players[i].hand) = Len(orig.players[i].hand)
          /\ Len(weak.players[i].draw) = Len(orig.players[i].draw)
          /\ \A j \in 1..Len(orig.players[i].draw) :
                weak.players[i].draw[j] \in {orig.players[i].draw[j], None}

\* C23 as stated: the rewritten log replays, and its state is a
\* knowledge-weakening of the original in which every hand and draw entry is
\* the original entry at that position or None.
C23_WeakeningByPosition ==
    /\ IsSome(twin)
    /\ WeakFrame(Unwrap(twin), board)
    /\ \A i \in 1..Len(board.players) :
          \A j \in 1..Len(board.players[i].hand) :
             Unwrap(twin).players[i].hand[j] \in {board.players[i].hand[j], None}

\* C23 amended: the rewritten log replays, and its state is a
\* knowledge-weakening of the original: same supply, same lengths of every
\* hand and draw, every draw entry the original entry or None, and every hand,
\* taken without its order, entry for entry the original or None (no card is
\* known more often in the rewritten hand than in the original one).
C23_WeakeningUpToOrder ==
    /\ IsSome(twin)
    /\ WeakFrame(Unwrap(twin), board)
    /\ \A i \in 1..Len(board.players) : \A c \in Card :
          Known(Unwrap(twin).players[i].hand, c) <= Known(board.players[i].hand, c)

\* a draw of P0 was anonymized and a later DiscardHand took different
\* positions in the two hands: the replayer holds an Estate and an unknown
\* card, the original a Copper and an Estate, and the Silver is discarded
C23_Witness ==
    /\ IsSome(twin)
    /\ IsSeat(board, 0)
    /\ board.players[1].hand = <<Some("Copper"), Some("Estate")>>
    /\ Unwrap(twin).players[1].hand = <<Some("Estate"), None>>
    /\ board.players[1].discard["Silver"] = 1
    /\ Unwrap(twin).players[1].discard["Silver"] = 1

\* the seats of g whose phase is not NotTurn
InTurn(g) == { p \in Player : IsSeat(g, p) /\ g.players[p + 1].phase # "NotTurn" }

ActivePhase(g) == IF IsSeat(g, g.turn) THEN g.players[g.turn + 1].phase ELSE "NotTurn"

Owned(pl) == Len(pl.hand) + Len(pl.draw) + Total(pl.played) + Total(pl.discard)

C27_BestEffortDraw ==
    \A p \in Player :
        IsSeat(board, p) =>
            LET r == game_draw_card(board, p)
                pl == board.players[p + 1]
                np == r.game.players[p + 1]
                ms == Unwrap(r.ret)
                piled == IF Len(pl.draw) = 0 THEN Total(pl.discard) ELSE Len(pl.draw)
            IN /\ IsSome(r.ret)
               /\ mutate_multi(board, ms) = Some(r.game)
               /\ (Len(pl.draw) = 0 /\ Total(pl.discard) > 0)
                     <=> (Len(ms) > 0 /\ ms[1] = ShuffleDiscard(p))
               /\ piled = 0 => ms = <<>> /\ r.game = board
               /\ piled > 0 =>
                     /\ Len(np.hand) = Len(pl.hand) + 1
                     /\ Len(np.draw) = piled - 1
                     /\ SubSeq(np.hand, 1, Len(pl.hand)) = pl.hand
                     /\ Total(np.discard) = (IF Len(pl.draw) = 0 THEN 0 ELSE Total(pl.discard))
               /\ Len(pl.draw) > 0 =>
                     /\ np.hand = Append(pl.hand, pl.draw[Len(pl.draw)])
                     /\ np.draw = SubSeq(pl.draw, 1, Len(pl.draw) - 1)
                     /\ r.game = [board EXCEPT !.players[p + 1].hand = np.hand,
                                                !.players[p + 1].draw = np.draw]

\* P0 has an empty draw pile and a discard of two cards, and a draw shuffles
\* them and takes one; P1 has neither and its draw returns the empty list
C27_Witness ==
    /\ Len(board.players) >= 2
    /\ IsSome(board.rand)
    /\ Len(board.players[1].draw) = 0
    /\ Total(board.players[1].discard) = 2
    /\ Len(Unwrap(game_draw_card(board, 0).ret)) = 3
    /\ Len(game_draw_card(board, 0).game.players[1].hand) = Len(board.players[1].hand) + 1
    /\ Len(game_draw_card(board, 0).game.players[1].draw) = 1
    /\ game_draw_card(board, 1).ret = Some(<<>>)
    /\ game_draw_card(board, 1).game = board

\* C28: after game construction with N players every seat owns exactly 10
\* cards, 7 Copper and 3 Estate, as 5 entries in hand and 5 in draw with an
\* empty discard; the supply holds Copper = 60 - 7N and Curse = 10(N - 1);
\* every one of the 17 piles exists; the active player is P0.
C28_Construction ==
    (IsSome(game) /\ glast.op = "new_from_seed") =>
        LET g == Unwrap(game)
            n == glast.rules.players
        IN /\ Len(g.players) = n
           /\ \A i \in 1..n :
                 LET pl == g.players[i]
                 IN /\ Len(pl.hand) = 5
                    /\ Len(pl.draw) = 5
                    /\ Total(pl.discard) = 0
                    /\ Total(pl.played) = 0
                    /\ Known(pl.hand, "Copper") + Known(pl.draw, "Copper") = 7
                    /\ Known(pl.hand, "Estate") + Known(pl.draw, "Estate") = 3
           /\ count_supply(g, "Copper") = Some(60 - 7 * n)
           /\ count_supply(g, "Curse") = Some(10 * (n - 1))
           /\ Cardinality({c \in Card : IsSome(count_supply(g, c))}) = 17
           /\ \A i \in 1..7 : IsSome(count_supply(g, CardOrder[i]))
           /\ \A i \in 1..10 : IsSome(count_supply(g, glast.rules.set[i]))
           /\ g.turn = 0

\* a four-player game has been constructed: 32 Copper and 30 Curses are left
C28_Witness ==
    /\ IsSome(game)
    /\ glast.op = "new_from_seed"
    /\ Len(Unwrap(game).players) = 4
    /\ count_supply(Unwrap(game), "Copper") = Some(32)
    /\ count_supply(Unwrap(game), "Curse") = Some(30)
    /\ Len(Unwrap(game).players[4].hand) = 5

\* C29: for every number of players N in {2, 3, 4} and every player p,
\* next(p, N) is a seat of an N-player game (below N), and N applications of
\* next from a seat p < N visit every seat exactly once and come back to p.
C29_SeatCycling ==
    /\ \A n \in Players, p \in Player :
          next(p, n) \in 0..(n - 1) /\ next(p, n) = (p + 1) % n
    /\ (glast.start < glast.players /\ Len(glast.visited) >= glast.players) =>
          /\ { glast.visited[i] : i \in 1..glast.players } = 0..(glast.players - 1)
          /\ glast.visited[glast.players] = glast.start

\* three players, from P1: the walk went P2, P0 and back to P1
C29_Witness ==
    /\ glast.players = 3
    /\ glast.start = 1
    /\ glast.visited = <<2, 0, 1>>

\* the cards on a board: the supply, the trash and every entry, known or
\* unknown, of every seat's hand, played, discard and draw
CardTotal(b) == Total(b.supply) + Len(b.trash) + HeldFrom(b, 1)

\* the mutations that move cards
ZoneMoves ==
    UNION { {GainCard(p, c) : c \in CardInputs}
              \cup {ShuffleDiscard(p), DiscardPlayed(p)}
              \cup {DrawCard(p, oc) : oc \in OptCardInputs}
              \cup {DiscardHand(p, c) : c \in CardInputs}
            : p \in Player }

\* C30: once the piles exist, every accepted GainCard, ShuffleDiscard,
\* DrawCard, DiscardHand and DiscardPlayed keeps the total number of cards on
\* the board, counting the supply, the trash and every entry (known or None)
\* of every seat's hand, played, discard and draw: none creates or destroys a
\* card slot.
C30_CardTotalKept ==
    \A m \in ZoneMoves :
        IsSome(mutate(board, m)) => CardTotal(Unwrap(mutate(board, m))) = CardTotal(board)

\* P0 has drawn its pile empty and discarded a card, and holds a played
\* Copper: a move of each of the five kinds is accepted, changes the board and
\* keeps the total
C30_Witness ==
    /\ Len(board.players) = 2
    /\ Len(board.players[1].draw) = 0
    /\ Len(board.players[1].hand) = 2
    /\ Total(board.players[1].discard) = 1
    /\ Total(board.players[1].played) > 0
    /\ \A m \in { GainCard(0, "Copper"), ShuffleDiscard(0), DrawCard(1, None),
                   DiscardHand(0, "Copper"), DiscardPlayed(0) } :
          /\ IsSome(mutate(board, m))
          /\ Unwrap(mutate(board, m)) # board
          /\ CardTotal(Unwrap(mutate(board, m))) = CardTotal(board)
    /\ CardTotal(board) = 9

\* what the equality of boards reads: supply, stacks, trash and every seat's
\* hand, played, discard and draw
Compared(b) ==
    [supply |-> b.supply, stacks |-> b.stacks, trash |-> b.trash,
     players |-> [i \in 1..Len(b.players) |->
                    [hand |-> b.players[i].hand, played |-> b.players[i].played,
                     discard |-> b.players[i].discard, draw |-> b.players[i].draw]]]

\* boards to compare with: the seatless board and two-seat boards whose P0
\* holds each played set or each discard set
ComparedBoards ==
    {new(None)} \cup {FieldBoard(pl, empty) : pl \in FieldSets}
                \cup {FieldBoard(empty, di) : di \in FieldSets}

\* ChangeTurn and the four setters
SetterMoves ==
    UNION { {ChangeTurn(p)}
              \cup {SetPhase(p, ph) : ph \in PlayerPhase}
              \cup {SetBuys(p, v) : v \in 0..MaxValue}
              \cup {SetActions(p, v) : v \in 0..MaxValue}
              \cup {SetGold(p, v) : v \in 0..MaxValue}
            : p \in Player }

\* C31: the equality of boards is decided by supply, stacks, trash and every
\* seat's hand, played, discard and draw alone: a board equals the board with
\* any other active player or generator, it equals the result of every
\* accepted ChangeTurn, SetPhase, SetBuys, SetActions and SetGold, and,
\* whatever turn, phases, actions, buys and gold it has come to, it equals a
\* board with the first values of these exactly when the compared parts agree.
C31_EqualityIgnoresTurnFields ==
    /\ \A p \in Player : BoardStateEq(board, [board EXCEPT !.turn = p])
    /\ \A sd \in 0..MaxSeed :
          BoardStateEq(board, [board EXCEPT !.rand = Some(from_seed(sd))])
    /\ \A m \in SetterMoves :
          \A r \in {mutate(board, m)} : IsSome(r) => BoardStateEq(board, Unwrap(r))
    /\ \A x \in ComparedBoards :
          BoardStateEq(board, x) <=> Compared(board) = Compared(x)

\* a two-seat board whose turn, P0 phase, buys, actions and gold have all been
\* set away from their first values: it still equals the board it started
\* from, a further SetPhase changes it and leaves it equal, and it is not
\* equal to the board with one more played Copper
C31_Witness ==
    /\ Len(board.players) = 2
    /\ board.turn = 1
    /\ board.players[1].phase = "Buy"
    /\ board.players[1].buys = 1
    /\ board.players[1].actions = 1
    /\ board.players[1].gold = 1
    /\ board # FieldBoard(board.players[1].played, board.players[1].discard)
    /\ BoardStateEq(board, FieldBoard(board.players[1].played, board.players[1].discard))
    /\ Unwrap(mutate(board, SetPhase(0, "Action"))) # board
    /\ BoardStateEq(board, Unwrap(mutate(board, SetPhase(0, "Action"))))
    /\ ~BoardStateEq(board, [board EXCEPT !.players[1].played = insert(@, "Copper", 1)])

\* C32: on every board reached from the empty board through mutations, a card
\* with a non-zero supply has a pile (stacks.contains); so an accepted
\* GainCard takes from a pile that was created by an AddStack, and
\* supply_stacks lists every card with a non-zero supply, with its count.
C32_SupplyHasPile ==
    /\ \A c \in Card : board.supply[c] > 0 => contains(board.stacks, c)
    /\ \A p \in Player, c \in Card :
          IsSome(mutate(board, GainCard(p, c))) =>
              contains(board.stacks, c) /\ (c \in CardInputs => IsSome(made[c]))
    /\ \A c \in Card :
          board.supply[c] > 0 =>
              \E i \in 1..Len(supply_stacks(board)) :
                  supply_stacks(board)[i] = <<c, board.supply[c]>>

\* the Estate pile was created with one card and P0 has gained it, the Copper
\* pile still holds its card: Copper is listed with count 1, the emptied
\* Estate pile with count 0, and a Silver, which has no pile, cannot be gained
C32_Witness ==
    /\ ~crashed
    /\ IsSeat(board, 0)
    /\ made["Estate"] = Some(1)
    /\ board.supply["Estate"] = 0
    /\ board.players[1].discard["Estate"] = 1
    /\ board.supply["Copper"] = 1
    /\ supply_stacks(board) = << <<"Copper", 1>>, <<"Estate", 0>> >>
    /\ IsSome(mutate(board, GainCard(0, "Copper")))
    /\ IsNone(mutate(board, GainCard(0, "Estate")))
    /\ IsNone(mutate(board, GainCard(0, "Silver")))

\* seat p has nothing to shuffle: its draw pile and its discard are empty
NothingToShuffle(b, p) ==
    /\ IsSeat(b, p)
    /\ Len(b.players[p + 1].draw) = 0
    /\ \A c \in Card : b.players[p + 1].discard[c] = 0

\* C33: ShuffleDiscard(p) for a seat p whose draw pile and discard are both
\* empty is accepted, with or without a generator; afterwards p.draw and
\* p.discard are still empty and every other part of the board, the
\* generator included, is as it was.
C33_ShuffleNothing ==
    \A p \in Player :
        NothingToShuffle(board, p) =>
            \A r \in {mutate(board, ShuffleDiscard(p))} :
                /\ IsSome(r)
                /\ Len(Unwrap(r).players[p + 1].draw) = 0
                /\ \A c \in Card : Unwrap(r).players[p + 1].discard[c] = 0
                /\ Unwrap(r) = board

\* a board with a generator on which P0 has gained a card, shuffled it into
\* the draw pile and drawn it: the draw pile and the discard are empty again
\* and another ShuffleDiscard(P0) is accepted and changes nothing
C33_Witness ==
    /\ ~crashed
    /\ IsSome(board.rand)
    /\ NothingToShuffle(board, 0)
    /\ board.players[1].hand = <<Some("Copper")>>
    /\ IsSome(mutate(board, ShuffleDiscard(0)))
    /\ Unwrap(mutate(board, ShuffleDiscard(0))) = board

====
